---- MODULE Spec2Model ----
(***************************************************************************)
(* pol: the lazy scope-resolution and streaming evaluation engine of       *)
(* src/pol/pol.py.  One behaviour is one invocation of pol(): the state    *)
(* is the closure of pol() (scope, record_seq, record_var, global_dict,    *)
(* result) plus the input source and what the printer has rendered.        *)
(* The user expression is an arbitrary program: a round is a sequence of   *)
(* accesses to the bindings of global_dict, ended by a value or a failure. *)
(***************************************************************************)
EXTENDS Integers, Sequences, FiniteSets, TLC

\* ------------------------------------------------------------------ bounds
MaxRecords == 2        \* longest input, in records
MaxSteps == 2          \* binding accesses the expression makes in one round
MaxTraversals == 2     \* traversals of records / lines the expression starts

Strs == {"a", "b"}     \* raw texts of the records of an input

\* --------------------------------------------------------------- variables
VARIABLES
    input,          \* the records the input source holds, as raw texts
    input_file,     \* "file" (a path was given) or "stdin" (input_file is None)
    input_format,   \* the input_format argument: "awk" or an unknown name
    output_format,  \* the output_format argument, by the printer it names
    catching,       \* the expression handles the failure of a binding itself
    srcPos,         \* records gen_records' stream f has been read past
    stolen,         \* records f.read() of get_contents took off a shared stdin
    genState,       \* gen_records(): "unstarted", "running", "done"
    ioCalls,        \* number of get_io() context entries
    directReads,    \* number of f.read() calls made by get_contents
    pulls,          \* elements gen_records has yielded
    buffer,         \* record_seq: the elements produced so far, replayed
    val,            \* record_var._val
    iterIdx,        \* record_var._iter: elements taken from record_seq
    advances,       \* calls of next(record_var) made by the result generator
    seenSinceAdv,   \* records get() returned since the last advance
    held,           \* sequences ("records", "lines") the expression holds
    recIdx,         \* position of the expression's traversal of records
    lineIdx,        \* position of the expression's traversal of lines
    linesLen,       \* elements lines' generator has taken from record_seq
    traversals,     \* traversals started, per sequence
    view,           \* what each consumer of record_seq has received, in order
    scope,          \* 'undecided', 'record', 'table'
    cached,         \* LazyItem caches of file, contents, df
    gets,           \* get() calls, per cached LazyItem
    obsFired,       \* on_accessed firings, per cached LazyItem
    prodCalls,      \* producer invocations, per cached LazyItem
    printer,        \* global_dict['printer']
    header,         \* global_dict['header']
    pc,             \* "round", "printing", "done", "failed"
    round,          \* evaluation rounds started
    steps,          \* binding accesses made in the running round
    lastRead,       \* record the running round last read (NoRec: none)
    roundsRead,     \* rounds that read the current record
    err,            \* how the invocation failed
    result,         \* values the rounds returned, in order
    resultKind,     \* "none", "single" (R0), "lazy" (itertools.chain)
    activePrinter,  \* the printer whose print_result runs
    activeHeader,   \* the header print_result was given
    printCalls,     \* calls of print_result
    printerReads,   \* reads of global_dict['printer'] by pol()
    headerReads,    \* reads of global_dict['header'] by pol()
    taken,          \* elements of result the printer has consumed
    pending,        \* values a collecting printer holds back
    output          \* values written to the output, in order

cfgVars == <<input, input_file, input_format, output_format, catching>>
srcVars == <<srcPos, stolen, genState, ioCalls, directReads, pulls, buffer>>
cursorVars == <<val, iterIdx, advances, seenSinceAdv>>
consVars == <<held, recIdx, lineIdx, linesLen, traversals>>
lazyVars == <<cached, gets, obsFired, prodCalls>>
envVars == <<printer, header>>
roundVars == <<round, steps, lastRead, roundsRead>>
printVars == <<result, resultKind, activePrinter, activeHeader, printCalls,
               printerReads, headerReads, taken, pending, output>>
vars == <<cfgVars, srcVars, cursorVars, consVars, view, scope,
          lazyVars, envVars, pc, roundVars, err, printVars>>

\* ----------------------------------------------------------------- values
NoRec == [no |-> 0, str |-> ""]                 \* _UNDEFINED_
NoErr == [type |-> "none", cause |-> "none"]
Consumers == {"records", "lines", "cursor", "df"}
CachedItems == {"file", "contents", "df", "record"}
RecordAliases == {"record", "fields", "line"}
TableNames == {"lines", "records", "file", "contents", "df"}
ScopeFreeNames == {"filename", "re", "pd", "np", "Header", "printer",
                   "header", "AutoPrinter"}
PrinterValues == {"stream", "collect", "notprinter"}
HeaderValues == {"None", "user"}

\* parser.records(f): the i-th record of the source, with its raw text
Parse(i) == [no |-> i, str |-> input[i]]

\* pol() without its isinstance check of the printer
IsPrinter_any(p) == TRUE

\* isinstance(printer, Printer)
IsPrinter(p) == p # "notprinter"

Inputs == UNION { [1..n -> Strs] : n \in 0..MaxRecords }


\* ------------------------------------------------------------------- Init
\* The state when pol() is entered: its arguments are chosen, nothing is
\* built and nothing has been read.
InitState ==
    /\ input \in Inputs
    /\ input_file \in {"file", "stdin"}
    /\ input_format \in {"awk", "bogus"}
    /\ output_format \in {"stream", "collect", "bogus"}
    /\ srcPos = 0 /\ stolen = 0 /\ genState = "unstarted"
    /\ ioCalls = 0 /\ directReads = 0 /\ pulls = 0
    /\ buffer = <<>>
    /\ val = NoRec /\ iterIdx = 0 /\ advances = 0 /\ seenSinceAdv = {}
    /\ held = {} /\ recIdx = 0 /\ lineIdx = 0 /\ linesLen = 0
    /\ traversals = [s \in {"records", "lines"} |-> 0]
    /\ view = [c \in Consumers |-> <<>>]
    /\ scope = "undecided"
    /\ cached = [n \in {"file", "contents", "df"} |-> FALSE]
    /\ gets = [n \in CachedItems |-> 0]
    /\ obsFired = [n \in CachedItems |-> 0]
    /\ prodCalls = [n \in CachedItems |-> 0]
    /\ printer = "none"
    /\ header = "None"
    /\ pc = "setup" /\ round = 1 /\ steps = 0 /\ lastRead = NoRec
    /\ roundsRead = {}
    /\ err = NoErr
    /\ result = <<>> /\ resultKind = "none"
    /\ activePrinter = "none" /\ activeHeader = "none"
    /\ printCalls = 0 /\ printerReads = 0 /\ headerReads = 0
    /\ taken = 0 /\ pending = <<>> /\ output = <<>>

\* an expression that lets the failure of a binding end the round
Init == InitState /\ catching = FALSE

\* an expression that handles the failure of a binding and goes on
InitCatch == InitState /\ catching = TRUE

\* input_format in PARSERS, output_format in PRINTERS
KnownInput == input_format = "awk"
KnownOutput == output_format # "bogus"

\* ------------------------------------------------- the one-pass producer
\* the generator gen_records() has ended, by exhaustion or by a failure
GenEnded == genState \in {"done", "failed"}

\* the first next() on gen_records() runs create_parser(input_format, ...),
\* which fails for an unknown format name
GenRaises == genState = "unstarted" /\ ~KnownInput

\* gen_records() has another record to yield
GenYields == ~GenEnded /\ ~GenRaises /\ srcPos < Len(input)

\* the record gen_records() yields next
GenElem == Parse(srcPos + 1)

\* next() on the generator gen_records(): the first call enters get_io and
\* creates the parser; each call yields the next record of the stream or
\* leaves the with-block and ends the generator.
gen_records_next ==
    /\ ioCalls' = IF genState = "unstarted" /\ ~GenRaises
                  THEN ioCalls + 1 ELSE ioCalls
    /\ IF GenYields
       THEN /\ srcPos' = srcPos + 1
            /\ pulls' = pulls + 1
            /\ genState' = "running"
       ELSE /\ genState' = IF GenRaises \/ genState = "failed"
                           THEN "failed" ELSE "done"
            /\ UNCHANGED <<srcPos, pulls>>
    /\ UNCHANGED <<stolen, directReads>>

\* get_contents(input_file): f.read() on a stream of its own (a file is
\* opened again) or on the shared sys.stdin, which it drains.
get_contents ==
    /\ ioCalls' = ioCalls + 1
    /\ directReads' = directReads + 1
    /\ IF input_file = "stdin"
       THEN /\ stolen' = stolen + (Len(input) - srcPos)
            /\ srcPos' = Len(input)
       ELSE UNCHANGED <<stolen, srcPos>>
    /\ UNCHANGED <<genState, pulls, buffer>>

\* ------------------------------------------- record_seq, the replay buffer
\* a consumer that has taken i elements of record_seq can take another
SeqHasNext(i) == i < Len(buffer) \/ GenYields

\* the element a consumer that has taken i elements takes next
SeqElem(i) == IF i < Len(buffer) THEN buffer[i + 1] ELSE GenElem

\* taking that element makes the producer fail
SeqRaises(i) == i >= Len(buffer) /\ GenRaises

\* RecordSequence: element i+1 for a consumer, replayed from the buffer or
\* pulled from the producer and appended to the buffer
RecordSequence_next(i) ==
    IF i < Len(buffer)
    THEN UNCHANGED srcVars
    ELSE /\ gen_records_next
         /\ buffer' = IF GenYields THEN Append(buffer, GenElem) ELSE buffer

\* the records the stream still holds for gen_records
RestOfStream ==
    IF GenEnded \/ GenRaises THEN <<>>
    ELSE [k \in 1..(Len(input) - srcPos) |-> Parse(srcPos + k)]

\* record_seq iterated to its end (pd.DataFrame(record_seq)), after the
\* header peek record_seq.header
RecordSequence_drain ==
    /\ ioCalls' = IF genState = "unstarted" /\ ~GenRaises
                  THEN ioCalls + 1 ELSE ioCalls
    /\ buffer' = buffer \o RestOfStream
    /\ pulls' = pulls + Len(RestOfStream)
    /\ srcPos' = srcPos + Len(RestOfStream)
    /\ genState' = IF GenRaises \/ genState = "failed" THEN "failed" ELSE "done"
    /\ UNCHANGED <<stolen, directReads>>

\* ---------------------------------------------------------- scope arbiter
\* set_scope without its check: the new scope always replaces the old one
set_scope_raises_never(newscope) == FALSE

\* set_scope(newscope) raises RuntimeError('Cannot access both ...')
set_scope_raises(newscope) == scope # newscope /\ scope # "undecided"

\* table_scoped passing cache=False whatever lazy is
table_scoped_cache_never(lazy) == FALSE

\* table_scoped(value, lazy=...): the cache flag of the LazyItem it builds
table_scoped_cache(lazy) == lazy

\* LazyItem.get returns the stored value instead of calling the producer
LazyItem_hit(present, cache) == cache /\ present

\* RecordScoped built with cache=False
RecordScoped_cache_off == FALSE

\* RecordScoped.__init__: super().__init__(..., cache=True)
RecordScoped_cache == TRUE

\* the lazy= argument of each table-scoped binding of global_dict
LazyArg(name) == name \notin {"lines", "records"}

\* ------------------------------------------------------ the running round
\* pol() without its except NoMoreRecords clause: every failure of round 1
\* becomes a UserError
Raised_wrapsAll(kind) ==
    IF round = 1
    THEN pc' = "failed" /\ err' = [type |-> "UserError", cause |-> kind]
    ELSE pc' = "failed" /\ err' = [type |-> kind, cause |-> kind]

\* A failure leaves prog.exec.  Round 1 runs inside the try of pol():
\* NoMoreRecords is passed over, anything else is raised as UserError from
\* it.  A later round runs inside the generator print_result consumes,
\* outside that try: its failure leaves pol() as it is.
Raised(kind) ==
    IF round = 1
    THEN IF kind = "NoMoreRecords"
         THEN pc' = "done" /\ err' = NoErr
         ELSE pc' = "failed" /\ err' = [type |-> "UserError", cause |-> kind]
    ELSE pc' = "failed" /\ err' = [type |-> kind, cause |-> kind]

\* the failure of a binding inside prog.exec: it ends the round, unless the
\* expression handles it
AccessRaised(kind) ==
    IF catching THEN UNCHANGED <<pc, err>> ELSE Raised(kind)

\* __next__ that stores a placeholder in _val when the records are exhausted
RecordScoped_next_storesOnFail ==
    /\ RecordSequence_next(iterIdx)
    /\ IF SeqHasNext(iterIdx)
       THEN /\ val' = SeqElem(iterIdx)
            /\ iterIdx' = iterIdx + 1
            /\ view' = [view EXCEPT !["cursor"] = Append(@, SeqElem(iterIdx))]
       ELSE /\ val' = [no |-> -1, str |-> ""]
            /\ UNCHANGED <<iterIdx, view>>

\* __next__ that returns the next record without storing it in _val once
\* _val is set
RecordScoped_next_keepsFirst ==
    /\ RecordSequence_next(iterIdx)
    /\ IF SeqHasNext(iterIdx)
       THEN /\ val' = IF val = NoRec THEN SeqElem(iterIdx) ELSE val
            /\ iterIdx' = iterIdx + 1
            /\ view' = [view EXCEPT !["cursor"] = Append(@, SeqElem(iterIdx))]
       ELSE UNCHANGED <<val, iterIdx, view>>

\* RecordScoped.__next__: the next record of record_seq becomes _val, or
\* NoMoreRecords is raised and _val is left alone
RecordScoped_next ==
    /\ RecordSequence_next(iterIdx)
    /\ IF SeqHasNext(iterIdx)
       THEN /\ val' = SeqElem(iterIdx)
            /\ iterIdx' = iterIdx + 1
            /\ view' = [view EXCEPT !["cursor"] = Append(@, SeqElem(iterIdx))]
       ELSE UNCHANGED <<val, iterIdx, view>>

\* the value prog.exec returns: what the expression made of the record it
\* read (NoRec: a value that depends on no record)
exec_value == lastRead


\* ------------------------------------------------------------------ setup
\* lines built as a list: record_seq is iterated to its end at setup
build_lines_eager ==
    /\ RecordSequence_drain
    /\ linesLen' = Len(buffer')

\* line 158: lines is built over the generator (r.str for r in record_seq),
\* which takes nothing from record_seq until it is iterated
build_lines == UNCHANGED <<srcVars, linesLen>>

\* pol() up to its first prog.exec.  From the command line the choices of
\* the two format arguments are checked before pol() runs; called as a
\* function, pol() builds record_seq and record_var, looks the printer up in
\* PRINTERS (ValueError for an unknown name) and builds global_dict.  The
\* input format is not looked at: create_parser runs inside gen_records.
Setup ==
    /\ pc = "setup"
    /\ \E cli \in BOOLEAN :
          IF cli /\ ~(KnownInput /\ KnownOutput)
          THEN /\ pc' = "failed"
               /\ err' = [type |-> "ArgumentError", cause |-> "UnknownFormat"]
               /\ UNCHANGED <<printer, srcVars, linesLen>>
          ELSE IF ~KnownOutput
          THEN /\ pc' = "failed"
               /\ err' = [type |-> "ValueError", cause |-> "UnknownFormat"]
               /\ UNCHANGED <<printer, srcVars, linesLen>>
          ELSE /\ pc' = "round"
               /\ printer' = output_format
               /\ build_lines
               /\ UNCHANGED err
    /\ UNCHANGED <<cfgVars, cursorVars, held, recIdx, lineIdx, traversals,
                   view, scope, lazyVars, header, roundVars, printVars>>

\* a get that fetches the record first and fires on_accessed afterwards
\* (_get_first_time calling next(self) before self._on_accessed())
GetRecord_pullFirst(alias) ==
    /\ pc = "round" /\ steps < MaxSteps
    /\ steps' = steps + 1
    /\ gets' = [gets EXCEPT !["record"] = @ + 1]
    /\ obsFired' = [obsFired EXCEPT !["record"] = @ + 1]
    /\ IF val = NoRec
       THEN /\ RecordScoped_next
            /\ prodCalls' = [prodCalls EXCEPT !["record"] = @ + 1]
       ELSE UNCHANGED <<srcVars, val, iterIdx, view, prodCalls>>
    /\ IF set_scope_raises("record")
       THEN /\ AccessRaised("MixedScope")
            /\ UNCHANGED <<scope, lastRead, seenSinceAdv, roundsRead>>
       ELSE /\ scope' = "record"
            /\ IF val' # NoRec
               THEN /\ lastRead' = val'
                    /\ seenSinceAdv' = seenSinceAdv \cup {val'}
                    /\ roundsRead' = roundsRead \cup {round}
                    /\ UNCHANGED <<pc, err>>
               ELSE /\ AccessRaised("NoMoreRecords")
                    /\ UNCHANGED <<lastRead, seenSinceAdv, roundsRead>>
    /\ UNCHANGED <<cfgVars, advances, consVars, cached, envVars,
                   round, printVars>>

\* LazyItem.get on record_var, under its aliases record, fields and line
\* (line calls record_var() itself): on_accessed fires, then _val is
\* returned, computed by _get_first_time while it is _UNDEFINED_.
GetRecord(alias) ==
    /\ pc = "round" /\ steps < MaxSteps
    /\ steps' = steps + 1
    /\ gets' = [gets EXCEPT !["record"] = @ + 1]
    /\ IF set_scope_raises("record")
       THEN /\ obsFired' = [obsFired EXCEPT !["record"] = @ + 1]
            /\ AccessRaised("MixedScope")
            /\ UNCHANGED <<scope, prodCalls, srcVars, val, iterIdx, view,
                           seenSinceAdv, lastRead, roundsRead>>
       ELSE /\ scope' = "record"
            /\ IF LazyItem_hit(val # NoRec, RecordScoped_cache)
               THEN /\ obsFired' = [obsFired EXCEPT !["record"] = @ + 1]
                    /\ lastRead' = val
                    /\ seenSinceAdv' = seenSinceAdv \cup {val}
                    /\ roundsRead' = roundsRead \cup {round}
                    /\ UNCHANGED <<prodCalls, srcVars, val, iterIdx, view,
                                   pc, err>>
               ELSE \* _get_first_time: on_accessed again, then next(self)
                    /\ obsFired' = [obsFired EXCEPT !["record"] = @ + 2]
                    /\ prodCalls' = [prodCalls EXCEPT !["record"] = @ + 1]
                    /\ RecordScoped_next
                    /\ IF SeqHasNext(iterIdx)
                       THEN /\ lastRead' = val'
                            /\ seenSinceAdv' = seenSinceAdv \cup {val'}
                            /\ roundsRead' = roundsRead \cup {round}
                            /\ UNCHANGED <<pc, err>>
                       ELSE /\ AccessRaised(IF SeqRaises(iterIdx)
                                            THEN "UnknownFormat"
                                            ELSE "NoMoreRecords")
                            /\ UNCHANGED <<lastRead, seenSinceAdv, roundsRead>>
    /\ UNCHANGED <<cfgVars, advances, consVars, cached, envVars,
                   round, printVars>>

\* get_dataframe building the frame from a producer of its own,
\* pd.DataFrame(gen_records(), ...), which reads the source again
get_dataframe_fresh(installed) ==
    IF installed /\ ~GenRaises
    THEN /\ ioCalls' = ioCalls + 1
         /\ pulls' = pulls + Len(input)
         /\ view' = [view EXCEPT !["df"] = [k \in 1..Len(input) |-> Parse(k)]]
         /\ UNCHANGED <<srcPos, stolen, genState, directReads, buffer, pc, err>>
    ELSE /\ AccessRaised(IF installed THEN "UnknownFormat" ELSE "ImportError")
         /\ IF installed THEN RecordSequence_drain ELSE UNCHANGED srcVars
         /\ UNCHANGED view

\* get_dataframe: pandas is imported (it may be missing), record_seq.header
\* is peeked and record_seq is iterated to its end; the peek fails when the
\* producer cannot create its parser
get_dataframe(installed) ==
    IF installed /\ ~GenRaises
    THEN /\ RecordSequence_drain
         /\ view' = [view EXCEPT !["df"] = buffer \o RestOfStream]
         /\ UNCHANGED <<pc, err>>
    ELSE /\ AccessRaised(IF installed THEN "UnknownFormat" ELSE "ImportError")
         /\ IF installed THEN RecordSequence_drain ELSE UNCHANGED srcVars
         /\ UNCHANGED view

\* LazyItem.get on a table-scoped binding: on_accessed fires set_scope
\* ('table'), then the value is returned, from the cache or the producer.
GetTable(name) ==
    /\ pc = "round" /\ steps < MaxSteps
    /\ steps' = steps + 1
    /\ IF name \in CachedItems
       THEN /\ gets' = [gets EXCEPT ![name] = @ + 1]
            /\ obsFired' = [obsFired EXCEPT ![name] = @ + 1]
       ELSE UNCHANGED <<gets, obsFired>>
    /\ IF set_scope_raises("table")
       THEN /\ AccessRaised("MixedScope")
            /\ UNCHANGED <<scope, cached, prodCalls, srcVars, view, held>>
       ELSE /\ scope' = "table"
            /\ IF name \in {"lines", "records"}
               THEN /\ held' = held \cup {name}
                    /\ UNCHANGED <<cached, prodCalls, srcVars, view, pc, err>>
               ELSE /\ UNCHANGED held
                    /\ IF LazyItem_hit(cached[name],
                                    table_scoped_cache(LazyArg(name)))
                       THEN UNCHANGED <<cached, prodCalls, srcVars, view,
                                        pc, err>>
                       ELSE /\ prodCalls' = [prodCalls EXCEPT ![name] = @ + 1]
                            /\ IF name = "df"
                               THEN \E installed \in BOOLEAN :
                                      /\ get_dataframe(installed)
                                      /\ cached' = [cached EXCEPT ![name] =
                                           installed /\ ~GenRaises /\
                                           table_scoped_cache(LazyArg(name))]
                               ELSE /\ get_contents
                                    /\ cached' = [cached EXCEPT ![name] =
                                         table_scoped_cache(LazyArg(name))]
                                    /\ UNCHANGED <<view, pc, err>>
    /\ UNCHANGED <<cfgVars, cursorVars, recIdx, lineIdx, linesLen,
                   traversals, envVars, round, lastRead, roundsRead, printVars>>

\* the expression starts iterating a sequence it holds, from its start
StartTraversal(s) ==
    /\ pc = "round" /\ s \in held
    /\ traversals[s] < MaxTraversals
    /\ traversals' = [traversals EXCEPT ![s] = @ + 1]
    /\ view' = [view EXCEPT ![s] = <<>>]
    /\ IF s = "records"
       THEN recIdx' = 0 /\ UNCHANGED lineIdx
       ELSE lineIdx' = 0 /\ UNCHANGED recIdx
    /\ UNCHANGED <<cfgVars, srcVars, cursorVars, held, linesLen,
                   scope, lazyVars, envVars, pc, roundVars, err, printVars>>

\* the expression takes the next element of its traversal of records
ConsumeRecords ==
    /\ pc = "round" /\ traversals["records"] > 0
    /\ ~(recIdx = Len(buffer) /\ GenEnded)
    /\ RecordSequence_next(recIdx)
    /\ IF SeqRaises(recIdx)
       THEN AccessRaised("UnknownFormat") ELSE UNCHANGED <<pc, err>>
    /\ IF SeqHasNext(recIdx)
       THEN /\ recIdx' = recIdx + 1
            /\ view' = [view EXCEPT !["records"] = Append(@, SeqElem(recIdx))]
       ELSE UNCHANGED <<recIdx, view>>
    /\ UNCHANGED <<cfgVars, cursorVars, held, lineIdx, linesLen,
                   traversals, scope, lazyVars, envVars, roundVars, printVars>>

\* the expression takes the next element of its traversal of lines, the
\* LazySequence over (r.str for r in record_seq): replayed from what that
\* generator gave before, or taken by it from record_seq
ConsumeLines ==
    /\ pc = "round" /\ traversals["lines"] > 0
    /\ ~(lineIdx = linesLen /\ linesLen = Len(buffer) /\ GenEnded)
    /\ IF lineIdx < linesLen
       THEN /\ lineIdx' = lineIdx + 1
            /\ view' = [view EXCEPT !["lines"] = Append(@, buffer[lineIdx + 1].str)]
            /\ UNCHANGED <<srcVars, linesLen, pc, err>>
       ELSE /\ RecordSequence_next(linesLen)
            /\ IF SeqRaises(linesLen)
               THEN AccessRaised("UnknownFormat") ELSE UNCHANGED <<pc, err>>
            /\ IF SeqHasNext(linesLen)
               THEN /\ linesLen' = linesLen + 1
                    /\ lineIdx' = lineIdx + 1
                    /\ view' = [view EXCEPT !["lines"] =
                                  Append(@, SeqElem(linesLen).str)]
               ELSE UNCHANGED <<linesLen, lineIdx, view>>
    /\ UNCHANGED <<cfgVars, cursorVars, held, recIdx, traversals,
                   scope, lazyVars, envVars, roundVars, printVars>>

\* global_dict with pd built by table_scoped
ScopeTag_pdTable(name) ==
    IF name \in TableNames \cup {"pd"} THEN "table"
    ELSE IF name \in RecordAliases THEN "record"
    ELSE "none"

\* global_dict, lines 157-182: the scope the on_accessed of a binding sets
\* ("none": a plain value, or a LazyItem without on_accessed)
ScopeTag(name) ==
    IF name \in TableNames THEN "table"
    ELSE IF name \in RecordAliases THEN "record"
    ELSE "none"

\* the expression reads one of the other bindings of global_dict
ReadScopeFree(name) ==
    /\ pc = "round" /\ steps < MaxSteps
    /\ steps' = steps + 1
    /\ IF ScopeTag(name) = "none"
       THEN UNCHANGED <<scope, pc, err>>
       ELSE IF set_scope_raises(ScopeTag(name))
       THEN AccessRaised("MixedScope") /\ UNCHANGED scope
       ELSE scope' = ScopeTag(name) /\ UNCHANGED <<pc, err>>
    /\ UNCHANGED <<cfgVars, srcVars, cursorVars, consVars, view,
                   lazyVars, envVars, round, lastRead, roundsRead,
                   printVars>>

\* the expression assigns global_dict['printer']
AssignPrinter(p) ==
    /\ pc = "round" /\ steps < MaxSteps
    /\ steps' = steps + 1
    /\ printer' = p
    /\ UNCHANGED <<cfgVars, srcVars, cursorVars, consVars, view,
                   scope, lazyVars, header, pc, round, lastRead, roundsRead,
                   err, printVars>>

\* the expression assigns global_dict['header']
AssignHeader(h) ==
    /\ pc = "round" /\ steps < MaxSteps
    /\ steps' = steps + 1
    /\ header' = h
    /\ UNCHANGED <<cfgVars, srcVars, cursorVars, consVars, view,
                   scope, lazyVars, printer, pc, round, lastRead, roundsRead,
                   err, printVars>>

\* the expression fails on its own (a division by zero)
RoundRaise ==
    /\ pc = "round"
    /\ Raised("ZeroDivisionError")
    /\ UNCHANGED <<cfgVars, srcVars, cursorVars, consVars, view,
                   scope, lazyVars, envVars, roundVars, printVars>>


\* ------------------------------------------------------------ the printer
\* print_result receives one more value of the result: a streaming printer
\* writes it at once, a collecting one holds it until the result ends
Emit(v) ==
    IF activePrinter' = "stream"
    THEN output' = Append(output, v) /\ UNCHANGED pending
    ELSE pending' = Append(pending, v) /\ UNCHANGED output

\* line 191 testing for "not table" instead of "record"
IsLazyResult_notTable == scope # "table"

\* pol(), line 191: the result becomes the lazy chain of rounds
IsLazyResult == scope = "record"

\* a round's return that looks the printer and the header up again in every
\* later round
RoundReturn_rereads ==
    /\ pc = "round"
    /\ IF round = 1
       THEN /\ result' = <<exec_value>>
            /\ resultKind' = IF IsLazyResult THEN "lazy" ELSE "single"
            /\ IF IsPrinter(printer)
               THEN \* line 194 reads the printer, line 198 reads it again
                    \* and reads the header
                    /\ pc' = "printing"
                    /\ activePrinter' = printer
                    /\ activeHeader' = header
                    /\ printCalls' = printCalls + 1
                    /\ printerReads' = printerReads + 2
                    /\ headerReads' = headerReads + 1
                    /\ UNCHANGED err
               ELSE /\ pc' = "failed"
                    /\ err' = [type |-> "PrinterContract", cause |-> printer]
                    /\ printerReads' = printerReads + 1
                    /\ UNCHANGED <<activePrinter, activeHeader, printCalls,
                                   headerReads>>
            /\ UNCHANGED <<taken, pending, output>>
       ELSE /\ result' = Append(result, exec_value)
            /\ taken' = taken + 1
            /\ pc' = "printing"
            /\ activePrinter' = printer
            /\ activeHeader' = header
            /\ UNCHANGED <<resultKind, printCalls, printerReads,
                           headerReads, err>>
            /\ Emit(exec_value)
    /\ UNCHANGED <<cfgVars, srcVars, cursorVars, consVars, view,
                   scope, lazyVars, envVars, roundVars>>

\* prog.exec returns a value.  Round 1: the else-branch of pol() builds the
\* result, reads global_dict['printer'], checks it and calls print_result
\* with global_dict.get('header').  A later round: the generator yields
\* the value to the printer that asked for it.
RoundReturn ==
    /\ pc = "round"
    /\ IF round = 1
       THEN /\ result' = <<exec_value>>
            /\ resultKind' = IF IsLazyResult THEN "lazy" ELSE "single"
            /\ IF IsPrinter(printer)
               THEN \* line 194 reads the printer, line 198 reads it again
                    \* and reads the header
                    /\ pc' = "printing"
                    /\ activePrinter' = printer
                    /\ activeHeader' = header
                    /\ printCalls' = printCalls + 1
                    /\ printerReads' = printerReads + 2
                    /\ headerReads' = headerReads + 1
                    /\ UNCHANGED err
               ELSE /\ pc' = "failed"
                    /\ err' = [type |-> "PrinterContract", cause |-> printer]
                    /\ printerReads' = printerReads + 1
                    /\ UNCHANGED <<activePrinter, activeHeader, printCalls,
                                   headerReads>>
            /\ UNCHANGED <<taken, pending, output>>
       ELSE /\ result' = Append(result, exec_value)
            /\ taken' = taken + 1
            /\ pc' = "printing"
            /\ UNCHANGED <<resultKind, activePrinter, activeHeader,
                           printCalls, printerReads, headerReads, err>>
            /\ Emit(exec_value)
    /\ UNCHANGED <<cfgVars, srcVars, cursorVars, consVars, view,
                   scope, lazyVars, envVars, roundVars>>

\* print_result renders the single value R0
PrintSingle ==
    /\ pc = "printing" /\ resultKind = "single"
    /\ taken' = 1
    /\ output' = Append(output, result[1])
    /\ pc' = "done"
    /\ UNCHANGED <<cfgVars, srcVars, cursorVars, consVars, view,
                   scope, lazyVars, envVars, roundVars, err, result,
                   resultKind, activePrinter, activeHeader, printCalls,
                   printerReads, headerReads, pending>>

\* print_result takes the first element of the chain, (result,): R0
PrinterTakeFirst ==
    /\ pc = "printing" /\ resultKind = "lazy" /\ taken = 0
    /\ taken' = 1
    /\ UNCHANGED <<activePrinter>>
    /\ Emit(result[1])
    /\ UNCHANGED <<cfgVars, srcVars, cursorVars, consVars, view,
                   scope, lazyVars, envVars, pc, roundVars, err, result,
                   resultKind, activeHeader, printCalls, printerReads,
                   headerReads>>

\* NoMoreRecords as a plain Exception: the end of the records leaves the
\* generator as a failure instead of ending it
Advance_exhaustIsError ==
    /\ pc = "printing" /\ resultKind = "lazy" /\ taken > 0
    /\ advances' = advances + 1
    /\ RecordScoped_next
    /\ IF SeqHasNext(iterIdx)
       THEN /\ pc' = "round"
            /\ round' = round + 1
            /\ steps' = 0
            /\ lastRead' = NoRec
            /\ seenSinceAdv' = {}
            /\ UNCHANGED err
       ELSE /\ pc' = "failed"
            /\ err' = [type |-> "NoMoreRecords", cause |-> "NoMoreRecords"]
            /\ UNCHANGED <<round, steps, lastRead, seenSinceAdv>>
    /\ UNCHANGED <<cfgVars, consVars, scope, lazyVars, envVars,
                   roundsRead, result, resultKind, activePrinter,
                   activeHeader, printCalls, printerReads, headerReads,
                   taken, pending, output>>

\* a generator that advances the cursor and yields without running the
\* expression again, (result for _ in record_var)
Advance_skipsRound ==
    /\ pc = "printing" /\ resultKind = "lazy" /\ taken > 0
    /\ advances' = advances + 1
    /\ RecordScoped_next
    /\ IF SeqHasNext(iterIdx)
       THEN /\ pc' = "printing"
            /\ seenSinceAdv' = {}
            /\ UNCHANGED <<pending, output>>
       ELSE /\ pc' = "done"
            /\ output' = output \o pending
            /\ pending' = <<>>
            /\ UNCHANGED seenSinceAdv
    /\ UNCHANGED <<cfgVars, consVars, scope, lazyVars, envVars, roundVars,
                   err, result, resultKind, activePrinter,
                   activeHeader, printCalls, printerReads, headerReads,
                   taken>>

\* print_result asks the chain for another element: the generator
\* (prog.exec(global_dict) for _ in record_var) calls next(record_var) and
\* starts the next round, or ends with the records, and the printer with it
Advance ==
    /\ pc = "printing" /\ resultKind = "lazy" /\ taken > 0
    /\ advances' = advances + 1
    /\ RecordScoped_next
    /\ IF SeqHasNext(iterIdx)
       THEN /\ pc' = "round"
            /\ round' = round + 1
            /\ steps' = 0
            /\ lastRead' = NoRec
            /\ seenSinceAdv' = {}
            /\ UNCHANGED <<pending, output>>
       ELSE /\ pc' = "done"
            /\ output' = output \o pending
            /\ pending' = <<>>
            /\ UNCHANGED <<round, steps, lastRead, seenSinceAdv>>
    /\ UNCHANGED <<cfgVars, consVars, scope, lazyVars, envVars,
                   roundsRead, err, result, resultKind, activePrinter,
                   activeHeader, printCalls, printerReads, headerReads,
                   taken>>

\* ------------------------------------------------------------------- Next
Next ==
    \/ Setup
    \/ \E alias \in RecordAliases : GetRecord(alias)
    \/ \E name \in TableNames : GetTable(name)
    \/ \E s \in {"records", "lines"} : StartTraversal(s)
    \/ ConsumeRecords
    \/ ConsumeLines
    \/ \E name \in ScopeFreeNames : ReadScopeFree(name)
    \/ \E p \in PrinterValues : AssignPrinter(p)
    \/ \E h \in HeaderValues : AssignHeader(h)
    \/ RoundRaise
    \/ RoundReturn
    \/ PrintSingle
    \/ PrinterTakeFirst
    \/ Advance

Spec == Init /\ [][Next]_vars

\* pol() is one sequential program: the expression returns or fails, the
\* printer keeps asking for the next value, so a step that can be taken
\* is taken
LiveSpec == Init /\ [][Next]_vars /\ WF_vars(Next)

\* the same program run on an expression that handles failing bindings
SpecCatch == InitCatch /\ [][Next]_vars


\* ================================================================ claims
AllRecords == [k \in 1..Len(input) |-> Parse(k)]

\* C1 (as stated): whenever a round fails with the mixed-scope error, in the
\* first round or a later one, the invocation has produced no output at all:
\* the printer has written nothing, also nothing for earlier rounds.
C1_MixedScopeNoOutput ==
    err.cause = "MixedScope" => (pc = "failed" /\ output = <<>>)

\* C2: in record scope, when every round read the current record, the k-th
\* value of the result is the value of the round that saw the k-th record
\* of the input; when the invocation is done there are exactly N values.
C2_RecordOrder ==
    (scope = "record" /\ roundsRead = 1..round) =>
        /\ \A k \in 1..Len(result) : result[k] = Parse(k)
        /\ (pc = "done" /\ Len(input) >= 1) => result = AllRecords

C2_Witness ==
    /\ pc = "done" /\ scope = "record" /\ roundsRead = {1, 2}
    /\ Len(input) = 2 /\ result = <<Parse(1), Parse(2)>>
    /\ output = result

\* C3: while the scope is table or undecided there is one evaluation round
\* and no advance of the cursor; print_result is handed R0 alone, and what
\* is written is R0.
C3_SingleRound ==
    scope # "record" =>
        /\ round = 1 /\ advances = 0 /\ val = NoRec
        /\ pc \in {"printing", "done"} =>
              (resultKind = "single" /\ Len(result) = 1)
        /\ pc = "done" => output = <<result[1]>>

C3_Witness ==
    /\ pc = "done" /\ scope = "undecided" /\ output = <<NoRec>>
    /\ Len(input) = 2

\* C4: with a producer that yields zero records (the input is empty and
\* its parser exists), a first round that reads a record-scoped binding
\* ends the invocation at once, without an error, without a call of
\* print_result and without output.
C4_EmptyInput ==
    (Len(input) = 0 /\ KnownInput /\ scope = "record") =>
        /\ pc = "done" /\ err = NoErr
        /\ printCalls = 0 /\ output = <<>> /\ pending = <<>>
        /\ round = 1 /\ result = <<>>

C4_Witness ==
    /\ Len(input) = 0 /\ KnownInput /\ scope = "record" /\ pc = "done"
    /\ gets["record"] = 1 /\ prodCalls["record"] = 1

\* C5 (as stated): in record scope, a failure of the expression other than
\* records-exhausted, in whichever round, leaves pol() as a UserError.
C5_UserFailureWrapped ==
    (scope = "record" /\ err.cause = "ZeroDivisionError") =>
        err.type = "UserError"


\* C6: between two advances every get() of the cursor, under any alias,
\* returns the same record; a get() changes the current record and takes
\* an element of record_seq only when no record was fetched yet, and the
\* current record changes otherwise only in an advance.
C6_CursorStable ==
    /\ [](Cardinality(seenSinceAdv) <= 1)
    /\ [][ /\ (gets'["record"] # gets["record"] /\ val # NoRec) =>
                (val' = val /\ iterIdx' = iterIdx /\ pulls' = pulls)
           /\ (val' # val) =>
                (advances' = advances + 1 \/
                 (val = NoRec /\ gets'["record"] = gets["record"] + 1)) ]_vars

C6_Witness ==
    /\ round = 2 /\ steps = 2 /\ gets["record"] = 4 /\ advances = 1
    /\ seenSinceAdv = {Parse(2)} /\ val = Parse(2)

IsPrefix(a, b) == Len(a) <= Len(b) /\ \A k \in 1..Len(a) : a[k] = b[k]

C8_SingleReader == directReads = 0 /\ ioCalls <= 1

C10_PrinterContract ==
    /\ err.type = "PrinterContract" =>
          /\ pc = "failed" /\ err.cause = printer /\ printer = "notprinter"
          /\ printCalls = 0 /\ output = <<>> /\ pending = <<>>
          /\ round = 1 /\ advances = 0 /\ taken = 0
    /\ printCalls > 0 => activePrinter \in {"stream", "collect"}
    /\ (resultKind # "none" /\ printCalls = 0) => err.type = "PrinterContract"

C10_Witness ==
    /\ err = [type |-> "PrinterContract", cause |-> "notprinter"]
    /\ scope = "record" /\ val = Parse(1) /\ Len(input) = 2


\* C11 (as stated): an input or output format name outside the recognized
\* set makes the invocation fail at setup: no evaluation round starts,
\* whatever the expression, and the failure is not a UserError.
C11_UnknownFormatAtSetup ==
    (~KnownInput \/ ~KnownOutput) =>
        \/ pc = "setup"
        \/ /\ pc = "failed" /\ steps = 0 /\ result = <<>>
           /\ err.type \in {"ArgumentError", "ValueError"}
           /\ err.cause = "UnknownFormat"


\* a step in which the expression reads or assigns a scope-free binding
ScopeFreeStep ==
    \/ \E name \in ScopeFreeNames : ReadScopeFree(name)
    \/ \E p \in PrinterValues : AssignPrinter(p)
    \/ \E h \in HeaderValues : AssignHeader(h)

\* C12: reading or assigning a scope-free binding leaves the scope as it
\* is and raises nothing; as long as no scope-tagged binding was accessed
\* the scope is undecided.
C12_ScopeFree ==
    /\ []((held = {} /\ \A n \in CachedItems : gets[n] = 0) =>
             scope = "undecided")
    /\ [][ScopeFreeStep => (scope' = scope /\ pc' = pc /\ err' = err)]_vars

C12_Witness ==
    /\ scope = "record" /\ pc = "round" /\ round = 2 /\ steps = 2
    /\ gets["record"] = 1 /\ header = "user"


\* C13: the scope starts undecided; a get of a record-scoped (table-scoped)
\* binding from undecided locks it to record (table); once it is record or
\* table no step changes it, and a set_scope with the other scope raises
\* and leaves it as it was.
C13_ScopeMonotonic ==
    /\ scope = "undecided"
    /\ [][ /\ scope # "undecided" => scope' = scope
           /\ (scope = "undecided" /\ gets'["record"] # gets["record"]) =>
                 scope' = "record"
           /\ (scope = "undecided" /\
               (held' # held \/ \E n \in {"file", "contents", "df"} :
                                   gets'[n] # gets[n])) =>
                 scope' = "table"
           /\ (err'.cause = "MixedScope" /\ err.cause # "MixedScope") =>
                 (scope' = scope /\ scope # "undecided") ]_vars

C13_Witness ==
    /\ scope = "record" /\ err.cause = "MixedScope" /\ round = 2
    /\ val = Parse(2)


\* C14: rounds and advances alternate.  While round k runs or its value is
\* with the printer there have been k-1 advances and k-1 (then k) values;
\* an advance happens only when the last round has returned and the
\* printer has its value, a new round starts only in an advance, and the
\* one advance that follows the last round ends the result.
C14_Alternate ==
    /\ [](/\ pc \in {"setup", "round"} =>
               (advances = round - 1 /\ Len(result) = round - 1)
          /\ pc = "failed" =>
               (advances = round - 1 /\ Len(result) \in {round - 1, round})
          /\ pc = "printing" => (advances = round - 1 /\ Len(result) = round)
          /\ (pc = "done" /\ resultKind = "lazy") =>
               (advances = round /\ Len(result) = round))
    /\ [][ /\ advances' # advances =>
                /\ advances' = advances + 1
                /\ pc = "printing" /\ Len(result) = round /\ taken = round
           /\ round' # round =>
                /\ round' = round + 1 /\ advances' = advances + 1
                /\ pc' = "round" /\ steps' = 0 ]_vars

C14_Witness ==
    /\ pc = "done" /\ resultKind = "lazy" /\ round = 2 /\ advances = 2
    /\ Len(result) = 2


\* C15: in record scope the result sequence ends: a lazy result leads to
\* the end of the invocation; when no round failed it ends by the advance
\* after the N-th round, without an error (records-exhausted is never the
\* failure of pol()), with the N values kept and written, and no step
\* follows the end.
C15_SequenceEnds ==
    /\ (resultKind = "lazy" /\ pc = "printing") ~> (pc \in {"done", "failed"})
    /\ [](err.type # "NoMoreRecords" /\ err.cause # "NoMoreRecords")
    /\ []((resultKind = "lazy" /\ pc = "done") =>
            /\ err = NoErr /\ round = Len(input) /\ advances = round
            /\ Len(result) = round /\ output = result /\ pending = <<>>
            /\ ~SeqHasNext(iterIdx))
    /\ [][pc # "done"]_vars

C15_Witness ==
    /\ resultKind = "lazy" /\ pc = "done" /\ Len(input) = 2
    /\ Len(output) = 2 /\ activePrinter = "collect" /\ advances = 2


\* C16: on_accessed fires before the producer runs: a get() of the cursor
\* while the scope is table raises the mixed-scope error, fires the
\* observer once, calls no producer, pulls no record and leaves the
\* cursor, the buffer and the scope as they were.
C16_ObserverFirst ==
    [][ (gets'["record"] # gets["record"] /\ scope = "table") =>
          /\ pc' = "failed" /\ err'.cause = "MixedScope"
          /\ obsFired'["record"] = obsFired["record"] + 1
          /\ prodCalls' = prodCalls
          /\ UNCHANGED <<srcVars, val, iterIdx, view, scope>> ]_vars

C16_Witness ==
    /\ scope = "table" /\ gets["record"] = 1 /\ err.cause = "MixedScope"
    /\ Len(input) = 2 /\ KnownInput /\ pulls = 0 /\ val = NoRec


\* C17: a producer that fails caches nothing.  A first fetch of the cursor
\* that fails leaves it without a current record, a cached df is a frame
\* that was built, and a get() of a LazyItem that holds no value calls the
\* producer again, also after a failure.
C17_FailureNotCached ==
    /\ [](/\ val # NoRec => (val.no \in 1..Len(buffer) /\ val = buffer[val.no])
          /\ cached["df"] => (view["df"] = buffer /\ GenEnded)
          /\ \A n \in {"file", "contents"} : cached[n] => directReads > 0)
    /\ [][ /\ (gets'["record"] # gets["record"] /\ val = NoRec /\
               ~set_scope_raises("record")) =>
                /\ prodCalls'["record"] = prodCalls["record"] + 1
                /\ ~SeqHasNext(iterIdx) => val' = NoRec
           /\ \A n \in {"file", "contents", "df"} :
                (gets'[n] # gets[n] /\ ~cached[n] /\
                 ~set_scope_raises("table")) =>
                    prodCalls'[n] = prodCalls[n] + 1 ]_vars

C17_Witness ==
    /\ pc = "round" /\ gets["record"] = 2 /\ prodCalls["record"] = 2
    /\ val = NoRec /\ scope = "record"


\* C18 as stated: a successful invocation reads the printer binding once and
\* the header binding once.
C18_ReadOnce ==
    printCalls = 1 => (printerReads = 1 /\ headerReads = 1)

\* C18: the engine reads the printer binding twice, back to back (line 194
\* for the check, line 198 for the call), and the header binding once, all in
\* the step that follows round 1 and precedes every later round.  The values
\* of round 1 are the printer that renders and the header it is given; no
\* later assignment changes either.
C18_ReadAfterFirstRound ==
    /\ [](/\ printCalls = 1 => (printerReads = 2 /\ headerReads = 1)
          /\ printCalls = 0 => (printerReads <= 1 /\ headerReads = 0)
          /\ round > 1 => printCalls = 1)
    /\ [][ /\ printCalls' # printCalls =>
                /\ round = 1 /\ pc = "round" /\ printCalls' = 1
                /\ activePrinter' = printer /\ activeHeader' = header
           /\ printCalls = 1 =>
                UNCHANGED <<activePrinter, activeHeader, printerReads,
                            headerReads, printCalls>> ]_vars

C18_Witness ==
    /\ pc = "done" /\ round > 1 /\ printCalls = 1
    /\ printer # activePrinter /\ header # activeHeader
    /\ Len(output) > 1


\* C19: while the scope is undecided nothing has been pulled: the generator
\* has not started, the input was not opened and not read, and the sequence
\* has buffered nothing.  An invocation that touches no scope-tagged binding
\* ends that way.
C19_NoPullBeforeScope ==
    scope = "undecided" =>
        /\ pulls = 0 /\ srcPos = 0 /\ stolen = 0
        /\ ioCalls = 0 /\ directReads = 0
        /\ genState = "unstarted" /\ buffer = <<>>
        /\ val = NoRec /\ iterIdx = 0 /\ linesLen = 0

C19_Witness ==
    /\ pc = "done" /\ scope = "undecided" /\ printCalls = 1
    /\ Len(input) = MaxRecords /\ KnownInput
    /\ pulls = 0 /\ genState = "unstarted" /\ Len(output) = 1

====
